---- MODULE Spec2Model ----
(***************************************************************************)
(* ITRANS to Devanagari converter (python/itrans_to_devanagari.py).        *)
(*                                                                         *)
(* A Python string is a sequence of one-character strings.  A Devanagari   *)
(* code point is written "U+0915"; a glyph (one element of the Python      *)
(* list `result`) is a sequence of code points, so that 'x' -> U+0915      *)
(* U+094D U+0937 stays ONE element of `result`, as in the code.  Cursor    *)
(* positions are 0-based as in Python: text[i] is text[i + 1] here.        *)
(***************************************************************************)
EXTENDS Integers, Sequences, FiniteSets, TLC

\* ------------------------------------------------------------------ bounds
\* longest input drawn character by character from ScanAlphabet
MaxLen == 3
\* most tokens of WordTokens concatenated into one input
MaxWords == 3

\* ------------------------------------------------------------ symbol tables
E(p, g) == [pat |-> p, glyph |-> g]

\* VOWELS, in declaration (dict insertion) order
VOWELS ==
  << E(<<"a">>, <<"U+0905">>),
     E(<<"a","a">>, <<"U+0906">>), E(<<"A">>, <<"U+0906">>),
     E(<<"i">>, <<"U+0907">>),
     E(<<"i","i">>, <<"U+0908">>), E(<<"I">>, <<"U+0908">>),
     E(<<"u">>, <<"U+0909">>),
     E(<<"u","u">>, <<"U+090A">>), E(<<"U">>, <<"U+090A">>),
     E(<<"R","R","i">>, <<"U+090B">>), E(<<"R","^","i">>, <<"U+090B">>),
     E(<<"R","R","I">>, <<"U+0960">>), E(<<"R","^","I">>, <<"U+0960">>),
     E(<<"L","L","i">>, <<"U+090C">>), E(<<"L","^","i">>, <<"U+090C">>),
     E(<<"L","L","I">>, <<"U+0961">>), E(<<"L","^","I">>, <<"U+0961">>),
     E(<<"e">>, <<"U+090F">>),
     E(<<"a","i">>, <<"U+0910">>), E(<<"E">>, <<"U+0910">>),
     E(<<"o">>, <<"U+0913">>),
     E(<<"a","u">>, <<"U+0914">>), E(<<"O">>, <<"U+0914">>),
     E(<<"M">>, <<"U+0902">>),
     E(<<"H">>, <<"U+0903">>),
     E(<<".">>, <<"U+0964">>),
     E(<<".",".">>, <<"U+0965">>) >>

\* CONSONANTS, in declaration order; 'j~n', 'GY' and 'x' are three code points
CONSONANTS ==
  << E(<<"k">>, <<"U+0915">>), E(<<"k","h">>, <<"U+0916">>),
     E(<<"g">>, <<"U+0917">>), E(<<"g","h">>, <<"U+0918">>),
     E(<<"~","N">>, <<"U+0919">>), E(<<"N","^">>, <<"U+0919">>),
     E(<<"c","h">>, <<"U+091A">>), E(<<"C","h">>, <<"U+091B">>),
     E(<<"c","h","h">>, <<"U+091B">>),
     E(<<"j">>, <<"U+091C">>), E(<<"j","h">>, <<"U+091D">>),
     E(<<"~","n">>, <<"U+091E">>), E(<<"J","N">>, <<"U+091E">>),
     E(<<"j","~","n">>, <<"U+091C","U+094D","U+091E">>),
     E(<<"G","Y">>, <<"U+091C","U+094D","U+091E">>),
     E(<<"T">>, <<"U+091F">>), E(<<"T","h">>, <<"U+0920">>),
     E(<<"D">>, <<"U+0921">>), E(<<"D","h">>, <<"U+0922">>),
     E(<<"N">>, <<"U+0923">>),
     E(<<"t">>, <<"U+0924">>), E(<<"t","h">>, <<"U+0925">>),
     E(<<"d">>, <<"U+0926">>), E(<<"d","h">>, <<"U+0927">>),
     E(<<"n">>, <<"U+0928">>),
     E(<<"p">>, <<"U+092A">>), E(<<"p","h">>, <<"U+092B">>),
     E(<<"b">>, <<"U+092C">>), E(<<"b","h">>, <<"U+092D">>),
     E(<<"m">>, <<"U+092E">>),
     E(<<"y">>, <<"U+092F">>), E(<<"r">>, <<"U+0930">>),
     E(<<"l">>, <<"U+0932">>), E(<<"v">>, <<"U+0935">>),
     E(<<"w">>, <<"U+0935">>),
     E(<<"s","h">>, <<"U+0936">>), E(<<"S","h">>, <<"U+0937">>),
     E(<<"S">>, <<"U+0937">>), E(<<"s">>, <<"U+0938">>),
     E(<<"h">>, <<"U+0939">>),
     E(<<"x">>, <<"U+0915","U+094D","U+0937">>) >>

\* MATRAS, in declaration order; note that 'a' is NOT a key
MATRAS ==
  << E(<<"a","a">>, <<"U+093E">>), E(<<"A">>, <<"U+093E">>),
     E(<<"i">>, <<"U+093F">>),
     E(<<"i","i">>, <<"U+0940">>), E(<<"I">>, <<"U+0940">>),
     E(<<"u">>, <<"U+0941">>),
     E(<<"u","u">>, <<"U+0942">>), E(<<"U">>, <<"U+0942">>),
     E(<<"R","R","i">>, <<"U+0943">>), E(<<"R","^","i">>, <<"U+0943">>),
     E(<<"R","R","I">>, <<"U+0944">>), E(<<"R","^","I">>, <<"U+0944">>),
     E(<<"e">>, <<"U+0947">>),
     E(<<"a","i">>, <<"U+0948">>), E(<<"E">>, <<"U+0948">>),
     E(<<"o">>, <<"U+094B">>),
     E(<<"a","u">>, <<"U+094C">>), E(<<"O">>, <<"U+094C">>) >>

\* SPECIAL, in declaration order
SPECIAL ==
  << E(<<"M">>, <<"U+0902">>),
     E(<<"H">>, <<"U+0903">>),
     E(<<".">>, <<"U+0964">>),
     E(<<".",".">>, <<"U+0965">>) >>

\* the literals written in translate
ANUSVARA == <<"U+0902">>
HALANT == <<"U+094D">>
DENTAL_NA == <<"U+0928">>

\* -------------------------------------------------------- Python built-ins
Range(s) == {s[k] : k \in 1..Len(s)}

\* dict.keys(): the keys in insertion order
Keys(table) == [k \in 1..Len(table) |-> table[k].pat]

\* dict.get(key): the value, or None (here the empty glyph) when absent
Get(table, key) ==
  IF \E k \in 1..Len(table) : table[k].pat = key
  THEN table[CHOOSE k \in 1..Len(table) : table[k].pat = key].glyph
  ELSE <<>>

LongestKey(keys) ==
  IF keys = <<>> THEN 0
  ELSE CHOOSE n \in {Len(keys[k]) : k \in 1..Len(keys)} :
         \A k \in 1..Len(keys) : Len(keys[k]) <= n

RECURSIVE ByLen(_, _)
ByLen(keys, n) ==
  IF n = 0 THEN <<>>
  ELSE LET HasLen(key) == Len(key) = n
       IN  SelectSeq(keys, HasLen) \o ByLen(keys, n - 1)

\* sorted(keys, key=len, reverse=True): descending length, stable, so keys
\* of equal length keep their declaration order
SortedLongestFirst(keys) == ByLen(keys, LongestKey(keys))

\* text[pos:].startswith(pattern), pos 0-based; a slice past the end is ''
StartsWith(text, pos, pattern) ==
  /\ pos + Len(pattern) <= Len(text)
  /\ \A j \in 1..Len(pattern) : text[pos + j] = pattern[j]

\* index of the first pattern of `patterns` (in its order) the text starts
\* with at pos, 0 when the for loop ends without a match
FirstMatch(patterns, text, pos) ==
  LET hits == {k \in 1..Len(patterns) : StartsWith(text, pos, patterns[k])}
  IN  IF hits = {} THEN 0 ELSE CHOOSE k \in hits : \A m \in hits : k <= m

UPPER == <<"A","B","C","D","E","F","G","H","I","J","K","L","M",
           "N","O","P","Q","R","S","T","U","V","W","X","Y","Z">>
LOWER == <<"a","b","c","d","e","f","g","h","i","j","k","l","m",
           "n","o","p","q","r","s","t","u","v","w","x","y","z">>

LowerChar(c) ==
  IF \E k \in 1..Len(UPPER) : UPPER[k] = c
  THEN LOWER[CHOOSE k \in 1..Len(UPPER) : UPPER[k] = c]
  ELSE c

\* str.lower()
Lower(s) == [k \in 1..Len(s) |-> LowerChar(s[k])]

\* needle in hay
Contains(hay, needle) ==
  \E p \in 0..(Len(hay) - Len(needle)) : StartsWith(hay, p, needle)

\* the characters str.split() treats as separators
IsSpace(c) == c \in {" ", "\t", "\n"}

RECURSIVE SplitFrom(_, _, _, _)
SplitFrom(s, k, cur, acc) ==
  IF k > Len(s)
  THEN IF cur = <<>> THEN acc ELSE Append(acc, cur)
  ELSE IF IsSpace(s[k])
       THEN SplitFrom(s, k + 1, <<>>, IF cur = <<>> THEN acc ELSE Append(acc, cur))
       ELSE SplitFrom(s, k + 1, Append(cur, s[k]), acc)

\* str.split(): the maximal runs of non-whitespace, no empty words
Split(s) == SplitFrom(s, 1, <<>>, <<>>)

RECURSIVE Join(_)
\* ' '.join(words)
Join(words) ==
  IF words = <<>> THEN <<>>
  ELSE IF Len(words) = 1 THEN words[1]
       ELSE words[1] \o <<" ">> \o Join(Tail(words))

RECURSIVE Flatten(_)
\* ''.join(result)
Flatten(glyphs) ==
  IF glyphs = <<>> THEN <<>> ELSE glyphs[1] \o Flatten(Tail(glyphs))

\* ------------------------------------------------ ITRANSTranslator.__init__
vowel_patterns == SortedLongestFirst(Keys(VOWELS))
\* faulty variant: the consonant keys left in declaration order ('k' before 'kh')
consonant_patterns_Unsorted == Keys(CONSONANTS)
consonant_patterns == SortedLongestFirst(Keys(CONSONANTS))
matra_patterns == SortedLongestFirst(Keys(MATRAS))
\* the special category is never sorted: the code iterates SPECIAL.keys()
special_patterns == Keys(SPECIAL)

SC(s, r) == [special |-> s, replacement |-> r]

\* self.special_cases, in insertion order
special_cases ==
  << SC(<<"s","h","r","i">>, <<"s","h","r","i","i">>),
     SC(<<"b","h","a","r","a","t">>, <<"b","h","a","a","r","a","t">>),
     SC(<<"s","a","n","s","k","r","i","t">>, <<"s","a","M","s","k","R","^","i","t">>),
     SC(<<"h","i","n","d","i">>, <<"h","i","M","d","i","i">>) >>

\* ------------------------------------------------- the special-case pre-pass
\* faulty variant: the loop keeps going after a hit, so the LAST alias present wins
FirstSpecialCase_NoBreak(text_lower) ==
  LET hits == {k \in 1..Len(special_cases) :
                 Contains(text_lower, special_cases[k].special)}
  IN  IF hits = {} THEN 0 ELSE CHOOSE k \in hits : \A m \in hits : k >= m

\* for special, replacement in self.special_cases.items():
\*     if special in text_lower: ... break
\* index of the one special case that is applied, 0 when the loop finds none
FirstSpecialCase(text_lower) ==
  LET hits == {k \in 1..Len(special_cases) :
                 Contains(text_lower, special_cases[k].special)}
  IN  IF hits = {} THEN 0 ELSE CHOOSE k \in hits : \A m \in hits : k <= m

\* the body of the if: split, replace the words equal to the alias, join
ReplaceWords(text, special, replacement) ==
  LET words == Split(text)
      new_words == [j \in 1..Len(words) |->
                      IF Lower(words[j]) = special THEN replacement ELSE words[j]]
  IN  Join(new_words)

\* the text the scanner runs on
ApplySpecialCases(text) ==
  LET k == FirstSpecialCase(Lower(text))
  IN  IF k = 0 THEN text
      ELSE ReplaceWords(text, special_cases[k].special, special_cases[k].replacement)

\* --------------------------------------------------- one scan-loop iteration
\* What one iteration leaves behind: the buffer, the cursor, and what it did
\* (kind: which branch matched; pat: the pattern; sub: what followed a
\* consonant; replaced/overwritten: the replace-last; err: an exception).
Step(result, i, kind, pat, sub, replaced, overwritten, err) ==
  [result |-> result, i |-> i, kind |-> kind, pat |-> pat, sub |-> sub,
   replaced |-> replaced, overwritten |-> overwritten, err |-> err]

\* if text[i] == ' ': result.append(' '); i += 1
SpaceStep(text, i, result) ==
  Step(Append(result, <<" ">>), i + 1, "space", <<" ">>, "none", FALSE, <<>>, FALSE)

\* faulty variant: the implicit 'a' is not recognised, so it is emitted as a vowel
IsImplicitA_Never(pattern) == FALSE

\* if matra_pattern == 'a' / if vowel_pattern == 'a'
IsImplicitA(pattern) == pattern = <<"a">>

\* faulty variant: "end of word" read as end of text OR a following space
IsFinalN_WordEnd(text, pattern, next_pos) ==
  /\ pattern = <<"n">>
  /\ \/ next_pos >= Len(text)
     \/ text[next_pos + 1] = " "

\* if pattern == 'n' and next_pos >= len(text)
IsFinalN(text, pattern, next_pos) == pattern = <<"n">> /\ next_pos >= Len(text)

\* faulty variant: the lookahead stops one character short, so no halant is written
\* before a one-letter consonant that ends the text
NeedsHalant_ShortLookahead(text, next_pos) ==
  /\ next_pos < Len(text) - 1
  /\ text[next_pos + 1] # " "
  /\ FirstMatch(consonant_patterns, text, next_pos) # 0
  /\ ~ \/ FirstMatch(vowel_patterns, text, next_pos) # 0
       \/ FirstMatch(special_patterns, text, next_pos) # 0

\* the conjunct test: not end of text, not a space, a consonant pattern
\* starts at next_pos, and no vowel or special pattern starts there
NeedsHalant(text, next_pos) ==
  /\ next_pos < Len(text)
  /\ text[next_pos + 1] # " "
  /\ FirstMatch(consonant_patterns, text, next_pos) # 0
  /\ ~ \/ FirstMatch(vowel_patterns, text, next_pos) # 0
       \/ FirstMatch(special_patterns, text, next_pos) # 0

\* result[-1] = anusvara; i = next_pos.  On an empty list Python raises
\* IndexError, which the err field records.
FinalNStep(pattern, next_pos, r1) ==
  IF r1 = <<>>
  THEN Step(r1, next_pos, "consonant", pattern, "final_n", FALSE, <<>>, TRUE)
  ELSE Step([r1 EXCEPT ![Len(r1)] = ANUSVARA], next_pos, "consonant", pattern,
            "final_n", TRUE, r1[Len(r1)], FALSE)

\* the else branch of the final-n test: maybe a halant, i = next_pos
NoVowelStep(text, pattern, next_pos, r1) ==
  IF NeedsHalant(text, next_pos)
  THEN Step(Append(r1, HALANT), next_pos, "consonant", pattern, "halant",
            FALSE, <<>>, FALSE)
  ELSE Step(r1, next_pos, "consonant", pattern, "bare", FALSE, <<>>, FALSE)

\* the matra loop hit matra_patterns[m] at next_pos
MatraStep(pattern, next_pos, r1, matra_pattern) ==
  IF IsImplicitA(matra_pattern)
  THEN Step(r1, next_pos + 1, "consonant", pattern, "implicit_a", FALSE, <<>>, FALSE)
  ELSE Step(Append(r1, Get(MATRAS, matra_pattern)), next_pos + Len(matra_pattern),
            "consonant", pattern, "matra", FALSE, <<>>, FALSE)

\* no matra: the vowel loop hit vowel_pattern at next_pos.  When
\* VOWELS.get were empty the code would leave i where it was.
VowelAfterConsonant(i, pattern, next_pos, r1, vowel_pattern) ==
  IF IsImplicitA(vowel_pattern)
  THEN Step(r1, next_pos + 1, "consonant", pattern, "implicit_a", FALSE, <<>>, FALSE)
  ELSE IF Get(VOWELS, vowel_pattern) # <<>>
       THEN Step(Append(r1, Get(VOWELS, vowel_pattern)),
                 next_pos + Len(vowel_pattern),
                 "consonant", pattern, "vowel", FALSE, <<>>, FALSE)
       ELSE Step(r1, i, "consonant", pattern, "vowel", FALSE, <<>>, FALSE)

\* a consonant pattern matched at i: the body of `if consonant:`
ConsonantStep(text, i, result, pattern) ==
  LET r1 == Append(result, Get(CONSONANTS, pattern))
      next_pos == i + Len(pattern)
      m == FirstMatch(matra_patterns, text, next_pos)
      v == FirstMatch(vowel_patterns, text, next_pos)
  IN  IF m # 0 THEN MatraStep(pattern, next_pos, r1, matra_patterns[m])
      ELSE IF v # 0
           THEN VowelAfterConsonant(i, pattern, next_pos, r1, vowel_patterns[v])
           ELSE IF IsFinalN(text, pattern, next_pos)
                THEN FinalNStep(pattern, next_pos, r1)
                ELSE NoVowelStep(text, pattern, next_pos, r1)

\* faulty variant: the standalone vowel looked up in MATRAS first
VowelStep_FromMatras(i, result, pattern) ==
  Step(Append(result, IF Get(MATRAS, pattern) # <<>> THEN Get(MATRAS, pattern)
                      ELSE Get(VOWELS, pattern)),
       i + Len(pattern), "vowel", pattern, "none", FALSE, <<>>, FALSE)

\* a standalone vowel matched at i
VowelStep(i, result, pattern) ==
  Step(Append(result, Get(VOWELS, pattern)), i + Len(pattern), "vowel", pattern,
       "none", FALSE, <<>>, FALSE)

\* a special pattern matched at i
SpecialStep(i, result, pattern) ==
  Step(Append(result, Get(SPECIAL, pattern)), i + Len(pattern), "special", pattern,
       "none", FALSE, <<>>, FALSE)

\* faulty variant: the character is copied but the cursor is not advanced
FallbackStep_NoAdvance(text, i, result) ==
  Step(Append(result, <<text[i + 1]>>), i, "fallback", <<text[i + 1]>>,
       "none", FALSE, <<>>, FALSE)

\* nothing matched: result.append(text[i]); i += 1
FallbackStep(text, i, result) ==
  Step(Append(result, <<text[i + 1]>>), i + 1, "fallback", <<text[i + 1]>>,
       "none", FALSE, <<>>, FALSE)

\* the body of `while i < len(text)`, in the code's order of tests.  Every
\* CONSONANTS and VOWELS value is non-empty, so `if consonant:` and
\* `if vowel:` never skip a pattern that matched.
Iteration(text, i, result) ==
  LET c == FirstMatch(consonant_patterns, text, i)
      v == FirstMatch(vowel_patterns, text, i)
      s == FirstMatch(special_patterns, text, i)
  IN  IF text[i + 1] = " " THEN SpaceStep(text, i, result)
      ELSE IF c # 0 THEN ConsonantStep(text, i, result, consonant_patterns[c])
      ELSE IF v # 0 THEN VowelStep(i, result, vowel_patterns[v])
      ELSE IF s # 0 THEN SpecialStep(i, result, special_patterns[s])
      ELSE FallbackStep(text, i, result)

\* ------------------------------------------------------------------- inputs
ScanAlphabet == {"n", "a", "k", "h", "t", "i", "M", ".", " ", "1", "s", "\t"}

WordTokens ==
  { <<"s","h","r","i">>, <<"B","h","a","r","a","t">>, <<"h","i","n","d","i">>,
    <<"x","s","h","r","i">>, <<" ">>, <<"\t">>, <<"1">> }

Goldens ==
  { <<"n","a","m","a","s","t","e">>, <<"n","a","m","a","s","k","a","a","r">>,
    <<"s","a","n","s","k","r","i","t">>, <<"s","h","r","i">>,
    <<"h","i","n","d","i">>, <<"r","a","a","m">>, <<"b","h","a","r","a","t">> }

RECURSIVE Texts(_, _)
\* every concatenation of at most n members of `units`
Texts(units, n) ==
  IF n = 0 THEN {<<>>}
  ELSE LET shorter == Texts(units, n - 1)
       IN  shorter \cup {s \o u : s \in shorter, u \in units}

\* every consonant pattern followed by every consonant pattern, bare or with
\* a vowel after it, and every consonant pattern followed by the implicit 'a'
\* and a word boundary
ConsonantTexts ==
  LET C == Range(Keys(CONSONANTS))
  IN  {c1 \o c2 \o t : c1 \in C, c2 \in C, t \in {<<>>, <<"i">>}}
        \cup {c \o <<"a">> \o t : c \in C, t \in {<<>>, <<" ">>, <<" ", "k">>}}

Inputs ==
  Texts({<<c>> : c \in ScanAlphabet}, MaxLen) \cup Texts(WordTokens, MaxWords)
    \cup Goldens \cup ConsonantTexts

\* -------------------------------------------------------------------- state
VARIABLES
  pc,             \* "idle", "called", "scan", "done" or "raised"
  original_text,  \* the argument of translate
  text,           \* the (possibly rewritten) text the scanner reads
  i,              \* the cursor, 0-based
  result,         \* the output buffer: a list of glyphs
  output,         \* the returned string
  log             \* history: what each scan iteration did

vars == <<pc, original_text, text, i, result, output, log>>

Init ==
  /\ pc = "idle"
  /\ original_text = <<>>
  /\ text = <<>>
  /\ i = 0
  /\ result = <<>>
  /\ output = <<>>
  /\ log = <<>>

\* translator.translate(t)
Call ==
  /\ pc = "idle"
  /\ \E t \in Inputs :
       /\ original_text' = t
       /\ text' = t
  /\ pc' = "called"
  /\ UNCHANGED <<i, result, output, log>>

\* if not text: return ''
ReturnEmpty ==
  /\ pc = "called"
  /\ text = <<>>
  /\ output' = <<>>
  /\ pc' = "done"
  /\ UNCHANGED <<original_text, text, i, result, log>>

\* the special-case pre-pass, then result = [], i = 0
Rewrite ==
  /\ pc = "called"
  /\ text # <<>>
  /\ text' = ApplySpecialCases(text)
  /\ result' = <<>>
  /\ i' = 0
  /\ pc' = "scan"
  /\ UNCHANGED <<original_text, output, log>>

\* the history entry of one iteration: where it started, what it did, where
\* it ended, the glyphs it left at the end of the buffer, and whether the
\* buffer below them was left as it was
Entry(before, at, st) ==
  [p |-> at, kind |-> st.kind, pat |-> st.pat, sub |-> st.sub, next |-> st.i,
   emitted |-> SubSeq(st.result, Len(before) + 1, Len(st.result)),
   kept |-> /\ Len(st.result) >= Len(before)
            /\ SubSeq(st.result, 1, Len(before)) = before,
   replaced |-> st.replaced, overwritten |-> st.overwritten]

\* one iteration of while i < len(text)
Scan ==
  /\ pc = "scan"
  /\ i < Len(text)
  /\ LET st == Iteration(text, i, result)
     IN  /\ result' = st.result
         /\ i' = st.i
         /\ log' = Append(log, Entry(result, i, st))
         /\ pc' = IF st.err THEN "raised" ELSE "scan"
  /\ UNCHANGED <<original_text, text, output>>

\* return ''.join(result)
Return ==
  /\ pc = "scan"
  /\ i >= Len(text)
  /\ output' = Flatten(result)
  /\ pc' = "done"
  /\ UNCHANGED <<original_text, text, i, result, log>>

Next == Call \/ ReturnEmpty \/ Rewrite \/ Scan \/ Return

Spec == Init /\ [][Next]_vars

TypeOK ==
  /\ pc \in {"idle", "called", "scan", "done", "raised"}
  /\ i \in Nat

\* =================================================================== claims
\* the translate call has passed the special-case pre-pass
Scanning == pc \in {"scan", "done", "raised"} /\ original_text # <<>>

Translates(input, expected) == original_text = input => output = expected

\* C1: translate maps each golden input to its golden output: namaste,
\* namaskaar, sanskrit, shri, hindi, raam, and the bare word bharat (which
\* is rewritten to bhaarat before the scan).
C1_Goldens ==
  pc = "done" =>
    /\ Translates(<<"n","a","m","a","s","t","e">>,
                  <<"U+0928","U+092E","U+0938","U+094D","U+0924","U+0947">>)
    /\ Translates(<<"n","a","m","a","s","k","a","a","r">>,
                  <<"U+0928","U+092E","U+0938","U+094D","U+0915","U+093E","U+0930">>)
    /\ Translates(<<"s","a","n","s","k","r","i","t">>,
                  <<"U+0938","U+0902","U+0938","U+094D","U+0915","U+0943","U+0924">>)
    /\ Translates(<<"s","h","r","i">>, <<"U+0936","U+094D","U+0930","U+0940">>)
    /\ Translates(<<"h","i","n","d","i">>,
                  <<"U+0939","U+093F","U+0902","U+0926","U+0940">>)
    /\ Translates(<<"r","a","a","m">>, <<"U+0930","U+093E","U+092E">>)
    /\ Translates(<<"b","h","a","r","a","t">>,
                  <<"U+092D","U+093E","U+0930","U+0924">>)
    /\ (original_text = <<"b","h","a","r","a","t">>
          => text = <<"b","h","a","a","r","a","t">>)

\* the bare word bharat has been translated, through its rewrite
C1_Witness ==
  /\ pc = "done"
  /\ original_text = <<"b","h","a","r","a","t">>
  /\ text # original_text
  /\ Len(log) = 3

\* the consonant pattern the scanner would match at 0-based position q
ConsonantAt(q) == consonant_patterns[FirstMatch(consonant_patterns, text, q)]

\* iteration k matched a consonant pattern and a consonant pattern begins
\* directly at its end
ConsonantPair(k) ==
  /\ log[k].kind = "consonant"
  /\ FirstMatch(consonant_patterns, text, log[k].p + Len(log[k].pat)) # 0

\* the glyph the next iteration left first, once it has run
NextGlyphIs(k, glyph) ==
  k + 1 <= Len(log) =>
    /\ log[k + 1].p = log[k].p + Len(log[k].pat)
    /\ log[k + 1].emitted # <<>>
    /\ log[k + 1].emitted[1] = glyph

\* C2 as stated: a consonant pattern C1 directly followed by a consonant
\* pattern C2 yields the base glyph of C1, the halant, then the glyph of C2,
\* for every pair and every context, also when C2 is the last token.
C2_AsStated ==
  Scanning =>
    \A k \in 1..Len(log) :
      ConsonantPair(k) =>
        LET q == log[k].p + Len(log[k].pat)
        IN  /\ log[k].next = q
            /\ log[k].emitted = <<Get(CONSONANTS, log[k].pat), HALANT>>
            /\ NextGlyphIs(k, Get(CONSONANTS, ConsonantAt(q)))

\* C2 amended: the same, except that when C2 is exactly "n" and ends the
\* text, the glyph after the halant is the anusvara, not the glyph of "n".
C2_ConjunctMark ==
  Scanning =>
    \A k \in 1..Len(log) :
      ConsonantPair(k) =>
        LET q == log[k].p + Len(log[k].pat)
            c2 == ConsonantAt(q)
        IN  /\ log[k].next = q
            /\ log[k].emitted = <<Get(CONSONANTS, log[k].pat), HALANT>>
            /\ NextGlyphIs(k, IF c2 = <<"n">> /\ q + 1 = Len(text)
                              THEN ANUSVARA ELSE Get(CONSONANTS, c2))

\* a consonant directly followed by the two-letter consonant that ends the
\* text, both scanned
C2_Witness ==
  /\ pc = "done"
  /\ \E k \in 1..Len(log) :
       /\ ConsonantPair(k)
       /\ k + 1 = Len(log)
       /\ Len(log[k + 1].pat) = 2
       /\ log[k + 1].sub = "bare"

\* iteration k matched exactly "n" with end-of-text right after it
FinalNAt(k) ==
  /\ log[k].kind = "consonant"
  /\ log[k].pat = <<"n">>
  /\ log[k].p + 1 = Len(text)

TableChars ==
  UNION {Range(VOWELS[k].pat) : k \in 1..Len(VOWELS)}
    \cup UNION {Range(CONSONANTS[k].pat) : k \in 1..Len(CONSONANTS)}
    \cup UNION {Range(MATRAS[k].pat) : k \in 1..Len(MATRAS)}
    \cup UNION {Range(SPECIAL[k].pat) : k \in 1..Len(SPECIAL)}

\* every code point the tables and the literals of translate can emit
TableCodePoints ==
  UNION {Range(VOWELS[k].glyph) : k \in 1..Len(VOWELS)}
    \cup UNION {Range(CONSONANTS[k].glyph) : k \in 1..Len(CONSONANTS)}
    \cup UNION {Range(MATRAS[k].glyph) : k \in 1..Len(MATRAS)}
    \cup UNION {Range(SPECIAL[k].glyph) : k \in 1..Len(SPECIAL)}
    \cup Range(ANUSVARA) \cup Range(HALANT)

\* the characters of s that are in no table, in order
Passthrough(s) ==
  LET Foreign(c) == c \notin TableChars /\ c \notin TableCodePoints
  IN  SelectSeq(s, Foreign)

\* C4: every character of the input that occurs in no pattern of any table
\* (digits, symbols, tabs, non-ITRANS letters) appears unchanged and in order
\* in the output, none dropped, duplicated or replaced, whether or not the
\* special-case pre-pass ran.
C4_PassthroughKept ==
  pc = "done" => Passthrough(output) = Passthrough(original_text)

RECURSIVE GapsFrom(_, _, _, _)
GapsFrom(s, k, cur, acc) ==
  IF k > Len(s) THEN Append(acc, cur)
  ELSE IF IsSpace(s[k]) THEN GapsFrom(s, k + 1, Append(cur, s[k]), acc)
       ELSE IF k > 1 /\ ~IsSpace(s[k - 1]) THEN GapsFrom(s, k + 1, cur, acc)
            ELSE GapsFrom(s, k + 1, <<>>, Append(acc, cur))

\* the whitespace of s: the run before the first word, the runs between
\* words, and the run after the last word (empty runs included)
Gaps(s) == GapsFrom(s, 1, <<>>, <<>>)

\* the aliases in the order the claims give them
AliasOrder ==
  << <<"s","h","r","i">>, <<"b","h","a","r","a","t">>,
     <<"s","a","n","s","k","r","i","t">>, <<"h","i","n","d","i">> >>

AliasExpansion ==
  << <<"s","h","r","i","i">>, <<"b","h","a","a","r","a","t">>,
     <<"s","a","M","s","k","R","^","i","t">>, <<"h","i","M","d","i","i">> >>

\* the aliases that occur as a substring of the lowercased input
AliasesPresent ==
  {a \in 1..Len(AliasOrder) : Contains(Lower(original_text), AliasOrder[a])}

FirstAliasPresent == CHOOSE a \in AliasesPresent : \A b \in AliasesPresent : a <= b

\* C5: the pre-pass changes nothing but the words equal to the applied
\* alias: the whitespace between and around the words and every other word
\* are as typed, and without an alias substring the text is unchanged.
C5_FrameKept ==
  Scanning =>
    /\ AliasesPresent = {} => text = original_text
    /\ Gaps(text) = Gaps(original_text)
    /\ Len(Split(text)) = Len(Split(original_text))
    /\ \A j \in 1..Len(Split(original_text)) :
         j <= Len(Split(text)) /\ Lower(Split(original_text)[j]) \notin Range(AliasOrder)
           => Split(text)[j] = Split(original_text)[j]

\* C6: at most one alias is applied, the first in table order that is a
\* substring of the lowercased input; every word equal to it (lowercased) is
\* replaced by its expansion; words equal to another alias, and words that
\* only contain the alias, stay as typed.
C6_OneAliasApplied ==
  Scanning =>
    LET words == Split(original_text)
        new == Split(text)
    IN  IF AliasesPresent = {} THEN text = original_text
        ELSE /\ Len(new) = Len(words)
             /\ \A j \in 1..Len(words) :
                  new[j] = IF Lower(words[j]) = AliasOrder[FirstAliasPresent]
                           THEN AliasExpansion[FirstAliasPresent]
                           ELSE words[j]

\* an input of two words, one equal to "shri" and one equal to "bharat" in
\* some case: the first was rewritten, the second stayed as typed
C6_Witness ==
  /\ pc = "done"
  /\ LET words == Split(original_text)
         new == Split(text)
     IN  /\ Len(words) = 2
         /\ Len(new) = 2
         /\ \E j, k \in 1..2 :
              /\ Lower(words[j]) = AliasOrder[1]
              /\ new[j] = AliasExpansion[1]
              /\ Lower(words[k]) = AliasOrder[2]
              /\ new[k] = words[k]

StrictPrefix(a, b) == Len(a) < Len(b) /\ SubSeq(b, 1, Len(a)) = a

\* in the order `index` is scanned, a pattern comes before its strict prefixes
LongerFirst(index) ==
  \A a, b \in 1..Len(index) : StrictPrefix(index[a], index[b]) => b < a

\* the order in which iteration k scanned the category it matched in
IndexOf(kind) ==
  IF kind = "consonant" THEN consonant_patterns
  ELSE IF kind = "vowel" THEN vowel_patterns
  ELSE special_patterns

\* the pattern lists iteration k went through, each in the order it was
\* visited: the consonants always; after a consonant the matras, the vowels
\* when no matra matched, and the specials in the conjunct test; the vowels
\* when no consonant matched; the specials when no vowel matched either
ScannedIn(k) ==
  IF log[k].kind = "space" THEN {}
  ELSE IF log[k].kind = "consonant"
       THEN {consonant_patterns, matra_patterns}
              \cup (IF log[k].sub = "matra" THEN {} ELSE {vowel_patterns})
              \cup (IF log[k].sub = "halant" THEN {special_patterns} ELSE {})
       ELSE IF log[k].kind = "vowel" THEN {consonant_patterns, vowel_patterns}
            ELSE {consonant_patterns, vowel_patterns, special_patterns}

\* C7: in each of the four categories a pattern is visited before each of
\* its strict prefixes wherever the category is scanned, so where both match
\* the longer one is selected.
C7_LongerVisitedFirst ==
  \A k \in 1..Len(log) :
    /\ \A index \in ScannedIn(k) : LongerFirst(index)
    /\ log[k].kind \in {"consonant", "vowel", "special"} =>
         \A m \in 1..Len(IndexOf(log[k].kind)) :
           StartsWith(text, log[k].p, IndexOf(log[k].kind)[m])
             => Len(IndexOf(log[k].kind)[m]) <= Len(log[k].pat)

\* iteration k matched a consonant followed by "a" and a word boundary
ImplicitAAt(k) ==
  LET q == log[k].p + Len(log[k].pat)
  IN  /\ log[k].kind = "consonant"
      /\ q < Len(text)
      /\ text[q + 1] = "a"
      /\ \/ q + 1 = Len(text)
         \/ text[q + 2] = " "

\* C8: a consonant pattern (also "n") followed by the literal "a" and a
\* word boundary leaves only its base glyph - no matra, no vowel glyph, no
\* halant, no anusvara - and the cursor ends just past the "a".
C8_ImplicitA ==
  Scanning =>
    \A k \in 1..Len(log) :
      ImplicitAAt(k) =>
        /\ log[k].emitted = <<Get(CONSONANTS, log[k].pat)>>
        /\ ~log[k].replaced
        /\ log[k].next = log[k].p + Len(log[k].pat) + 1

\* "n" followed by "a" at the end of the text, scanned
C8_Witness ==
  /\ pc = "done"
  /\ \E k \in 1..Len(log) :
       /\ ImplicitAAt(k)
       /\ log[k].pat = <<"n">>
       /\ log[k].next = Len(text)
       /\ output = <<"U+0928">>

\* C9: every iteration moves the cursor forward by at least one and never
\* past the end of the text, each iteration starts where the last one
\* ended, no iteration raises, and the loop ends after at most len(text)
\* iterations with the cursor at len(text).
C9_CursorAdvances ==
  /\ pc # "raised"
  /\ Scanning =>
       /\ i <= Len(text)
       /\ Len(log) <= i
       /\ \A k \in 1..Len(log) :
            /\ log[k].p < log[k].next
            /\ log[k].next <= Len(text)
            /\ log[k].p = IF k = 1 THEN 0 ELSE log[k - 1].next
       /\ pc = "done" => i = Len(text)

\* a scan that ended with fewer iterations than characters and with a
\* replace-last on the buffer
C9_Witness ==
  /\ pc = "done"
  /\ i = Len(text)
  /\ Len(log) >= 2
  /\ Len(log) < Len(text)
  /\ \E k \in 1..Len(log) : log[k].replaced

MatraGlyphs == {MATRAS[k].glyph : k \in 1..Len(MATRAS)}

\* the last code point of each consonant glyph
ConsonantTails ==
  {CONSONANTS[k].glyph[Len(CONSONANTS[k].glyph)] : k \in 1..Len(CONSONANTS)}

\* C10: a matra glyph is appended only in the iteration that appended a
\* consonant glyph, and right after it; a vowel pattern matched outside a
\* consonant iteration emits the independent vowel glyph; so every matra in
\* the output directly follows the last code point of a consonant glyph.
C10_MatraAfterConsonant ==
  Scanning =>
    /\ \A k \in 1..Len(log) :
         /\ (\E q \in 1..Len(log[k].emitted) : log[k].emitted[q] \in MatraGlyphs) =>
              /\ log[k].kind = "consonant"
              /\ Len(log[k].emitted) = 2
              /\ log[k].emitted[1] = Get(CONSONANTS, log[k].pat)
         /\ log[k].kind = "vowel" => log[k].emitted = <<Get(VOWELS, log[k].pat)>>
    /\ LET flat == Flatten(result)
       IN  \A q \in 1..Len(flat) :
             <<flat[q]>> \in MatraGlyphs => q > 1 /\ flat[q - 1] \in ConsonantTails

\* an output with a matra on a consonant and an independent vowel whose
\* pattern is also a matra pattern
C10_Witness ==
  /\ pc = "done"
  /\ \E k \in 1..Len(log) : log[k].sub = "matra"
  /\ \E k \in 1..Len(log) :
       log[k].kind = "vowel" /\ Get(MATRAS, log[k].pat) # <<>>

====
